---- MODULE Spec2Model ----
(***************************************************************************)
(* Model of the ERP synchronisation worker: the Kafka consumer lifecycle,  *)
(* handleMessage, the three message processors, withRetry and the catalog  *)
(* API the worker calls.  Spec follows one partition with the full log of  *)
(* each message; SpecP follows several partitions at once and SpecW a      *)
(* topic with more partitions than the consumer handles at a time.         *)
(* SpecProducts and SpecUsers follow the backend services behind the API:  *)
(* concurrent calls over a database row and its redis copy.                *)
(***************************************************************************)
EXTENDS Integers, Sequences, FiniteSets, TLC

VARIABLES
  phase,      \* position of the worker process in start() / stop()
  isRunning,  \* ERPSyncWorker.isRunning
  exitCode,   \* process exit code, -1 while the process lives
  pc,         \* position of the handleMessage invocation in flight
  job,        \* the parsed message and the withRetry arguments
  calls,      \* HTTP calls issued for the message in flight, in order
  delays,     \* setTimeout delays withRetry has waited for this message
  attempts,   \* number of times withRetry invoked operation() for it
  log,        \* logger calls made for this message, in order
  result,     \* how the last handleMessage invocation ended
  catalog,    \* the catalog store behind PUT /api/products/:id
  delivered,  \* number of messages the bus has delivered so far
  prev,       \* on a redelivery: what the previous delivery of it did
  atStop,     \* pc of the handling in flight at the call of stop(), "" before
  starting,   \* the step of start() still pending at the call of stop()
  tasks,      \* handleMessage invocations in flight, over all partitions
  busy,       \* per partition: the runner awaits the promise of eachMessage
  offset,     \* per partition: offset of the last message handed out
  issued,     \* per partition: offset of the message that made the last call
  writes,     \* PUTs the catalog accepted, in the order it applied them
  dropped,    \* number of messages that ended without an accepted PUT
  productRow,   \* the row of the product in the database: its version
  productCache, \* redis key product:<id>: <<>> or <<cached version>>
  pcalls,       \* getProductById / updateProduct calls in flight
  pbegun,       \* number of product calls begun so far
  returned,     \* newest version whose updateProduct call has returned
  lastGet,      \* what the last getProductById call returned
  userRow,      \* the row of the user in the database
  userCache,    \* redis key user:<id>: <<>> or <<cached user>>
  ucalls,       \* user service and middleware calls in flight
  ubegun,       \* number of user calls begun so far
  uevent        \* the last thing a user call did, with the row as it was then

vars == <<phase, isRunning, exitCode, pc, job, calls, delays, attempts, log,
          result, catalog, delivered, prev, atStop, starting, tasks, busy,
          offset, issued, writes, dropped, productRow, productCache, pcalls,
          pbegun, returned, lastGet, userRow, userCache, ucalls, ubegun,
          uevent>>

\* the product service of the backend
prodvars == <<productRow, productCache, pcalls, pbegun, returned, lastGet>>

\* the user service and the authentication middleware of the backend
uservars == <<userRow, userCache, ucalls, ubegun, uevent>>

\* the backend, which the worker process leaves alone
bvars == <<prodvars, uservars>>

\* the worker process, which the backend leaves alone
workervars == <<phase, isRunning, exitCode, pc, job, calls, delays, attempts,
                log, result, catalog, delivered, prev, atStop, starting, tasks,
                busy, offset, issued, writes, dropped>>

wvars == <<phase, isRunning, exitCode>>

\* the view of the consumer over its partitions
pvars == <<tasks, busy, offset, issued, writes, dropped>>

----------------------------------------------------------------------------
(* JSON values.  A number is n, plus one half when h holds. *)

Undefined == [t |-> "undefined", s |-> "", n |-> 0, h |-> FALSE, b |-> FALSE]
Str(s) == [t |-> "string", s |-> s, n |-> 0, h |-> FALSE, b |-> FALSE]
Num(n, h) == [t |-> "number", s |-> "", n |-> n, h |-> h, b |-> FALSE]
Bool(b) == [t |-> "boolean", s |-> "", n |-> 0, h |-> FALSE, b |-> b]

\* JavaScript truthiness, as used by `!productId` and `if (message.name)`
Truthy(v) ==
  CASE v.t = "string" -> v.s # ""
    [] v.t = "number" -> v.n # 0 \/ v.h
    [] v.t = "boolean" -> v.b
    [] OTHER -> FALSE

\* property access on a parsed message: an absent key reads as undefined
Field(m, f) == IF f \in DOMAIN m THEN m[f] ELSE Undefined

NoFields == [f \in {} |-> Undefined]

----------------------------------------------------------------------------
(* Topics and message schemas *)

TOPICS == [PRODUCT_UPDATES |-> "product_updates",
           PRICE_UPDATES |-> "price_updates",
           STOCK_UPDATES |-> "stock_updates"]

\* one zod field: z.<type>() [.int()] [.min(0)] [.optional()]
Z(type, optional, int, min0) ==
  [type |-> type, optional |-> optional, int |-> int, min0 |-> min0]

productUpdateMessageSchema ==
  [id |-> Z("string", FALSE, FALSE, FALSE),
   name |-> Z("string", TRUE, FALSE, FALSE),
   sku |-> Z("string", TRUE, FALSE, FALSE),
   description |-> Z("string", TRUE, FALSE, FALSE),
   category |-> Z("string", TRUE, FALSE, FALSE),
   brand |-> Z("string", TRUE, FALSE, FALSE),
   weight |-> Z("number", TRUE, FALSE, FALSE),
   unit |-> Z("string", TRUE, FALSE, FALSE),
   isActive |-> Z("boolean", TRUE, FALSE, FALSE),
   timestamp |-> Z("number", FALSE, FALSE, FALSE)]

\* mutants of the price schema: price without .min(0); sku made optional
priceUpdateMessageSchemaNoMin ==
  [productId |-> Z("string", TRUE, FALSE, FALSE),
   sku |-> Z("string", FALSE, FALSE, FALSE),
   price |-> Z("number", FALSE, FALSE, FALSE),
   timestamp |-> Z("number", FALSE, FALSE, FALSE)]

priceUpdateMessageSchemaSkuOptional ==
  [productId |-> Z("string", TRUE, FALSE, FALSE),
   sku |-> Z("string", TRUE, FALSE, FALSE),
   price |-> Z("number", FALSE, FALSE, TRUE),
   timestamp |-> Z("number", FALSE, FALSE, FALSE)]

priceUpdateMessageSchema ==
  [productId |-> Z("string", TRUE, FALSE, FALSE),
   sku |-> Z("string", FALSE, FALSE, FALSE),
   price |-> Z("number", FALSE, FALSE, TRUE),
   timestamp |-> Z("number", FALSE, FALSE, FALSE)]

stockUpdateMessageSchema ==
  [productId |-> Z("string", TRUE, FALSE, FALSE),
   sku |-> Z("string", FALSE, FALSE, FALSE),
   stock |-> Z("number", FALSE, TRUE, TRUE),
   timestamp |-> Z("number", FALSE, FALSE, FALSE)]

SchemaOf(topic) ==
  CASE topic = TOPICS.PRODUCT_UPDATES -> productUpdateMessageSchema
    [] topic = TOPICS.PRICE_UPDATES -> priceUpdateMessageSchema
    [] topic = TOPICS.STOCK_UPDATES -> stockUpdateMessageSchema

\* zod's check of one key of the input object
ZodFieldOk(spec, data, f) ==
  IF f \notin DOMAIN data
  THEN spec.optional
  ELSE /\ data[f].t = spec.type
       /\ spec.int => ~data[f].h
       /\ spec.min0 => data[f].n >= 0

\* schema.parse(data): throws ZodError unless every key passes; the parsed
\* object keeps the schema's keys only
ZodSuccess(schema, data) == \A f \in DOMAIN schema : ZodFieldOk(schema[f], data, f)

ZodOutput(schema, data) ==
  [f \in (DOMAIN schema) \cap (DOMAIN data) |-> data[f]]

----------------------------------------------------------------------------
(* Messages the bus can deliver *)

MaxMessages == 2

\* message.value of a Kafka message: null, an empty buffer, text that is
\* not JSON, or JSON text (held here as the value it decodes to)
NullValue == [kind |-> "null", data |-> NoFields]
EmptyValue == [kind |-> "empty", data |-> NoFields]
GarbageValue == [kind |-> "garbage", data |-> NoFields]
JsonValue(d) == [kind |-> "json", data |-> d]

\* all objects whose keys are among DOMAIN opts, each key's value in opts
Objects(opts) ==
  LET vals == UNION {opts[f] : f \in DOMAIN opts}
  IN UNION {{d \in [D -> vals] : \A f \in D : d[f] \in opts[f]} :
              D \in SUBSET DOMAIN opts}

\* product events: the ones that differ in how the target is found, and
\* the ones that differ in the fields they carry for a known target
ProductPayloads ==
  Objects([id |-> {Str(""), Str("p1")},
           sku |-> {Str("A"), Str("Z")},
           name |-> {Str(""), Str("Milk")},
           timestamp |-> {Num(1, FALSE)}])
  \cup
  Objects([id |-> {Str("p1")},
           name |-> {Str(""), Str("Milk")},
           weight |-> {Num(0, FALSE), Num(1, TRUE)},
           isActive |-> {Bool(FALSE)},
           timestamp |-> {Num(1, FALSE)}])

PricePayloads ==
  Objects([productId |-> {Str(""), Str("p1")},
           sku |-> {Str("A"), Str("Z")},
           price |-> {Num(-1, FALSE), Num(3, TRUE), Str("3.49")},
           timestamp |-> {Num(1, FALSE), Str("now")}])

StockPayloads ==
  Objects([productId |-> {Str(""), Str("p1"), Str("p9")},
           sku |-> {Str("A"), Str("Z")},
           stock |-> {Num(-1, FALSE), Num(0, FALSE), Num(0, TRUE), Num(5, FALSE)},
           timestamp |-> {Num(1, FALSE), Str("now")}])

PayloadsOf(topic) ==
  CASE topic = TOPICS.PRODUCT_UPDATES -> ProductPayloads
    [] topic = TOPICS.PRICE_UPDATES -> PricePayloads
    [] topic = TOPICS.STOCK_UPDATES -> StockPayloads
    [] OTHER -> {NoFields}

ValuesOf(topic) ==
  {NullValue, EmptyValue, GarbageValue} \cup {JsonValue(d) : d \in PayloadsOf(topic)}

Topics == {TOPICS.PRODUCT_UPDATES, TOPICS.PRICE_UPDATES, TOPICS.STOCK_UPDATES}

DeliveredTopics == Topics \cup {"order_updates"}

----------------------------------------------------------------------------
(* The catalog API, as the worker sees it *)

InitialCatalog ==
  [p1 |-> [sku |-> Str("A"), name |-> Str("Bread"),
           price |-> Num(2, FALSE), stock |-> Num(7, FALSE)]]

\* prisma.product.findUnique({ where: { sku } })
SkuMatches(cat, sku) == {id \in DOMAIN cat : cat[id].sku = Str(sku)}

\* GET /api/products/sku/:sku answers 200 with the product, 404 when no
\* product has the sku, 400 when the API refuses the request (any other
\* 4xx); 503 stands for timeouts, connection errors and 5xx
GetStatuses(cat, sku) ==
  IF SkuMatches(cat, sku) # {} THEN {200, 400, 503} ELSE {404, 400, 503}

\* PUT /api/products/:id answers 404 for an unknown id, 400 when the API
\* rejects the request, 200 when the update was applied
PutStatuses(cat, id) ==
  IF id \in DOMAIN cat THEN {200, 400, 503} ELSE {404, 400, 503}

\* prisma.product.update({ where: { id }, data }): the keys of data
\* overwrite the stored ones, the others stay
\* mutant: the stored value of a field is kept once it has one
MergeFieldsKeepStored(product, data) ==
  [f \in (DOMAIN product) \cup (DOMAIN data) |->
     IF f \in DOMAIN product THEN product[f] ELSE data[f]]

\* mutant: stock taken as a delta to add to the stored quantity
MergeFieldsStockDelta(product, data) ==
  [f \in (DOMAIN product) \cup (DOMAIN data) |->
     IF f \notin DOMAIN data THEN product[f]
     ELSE IF f = "stock" /\ f \in DOMAIN product
          THEN Num(product[f].n + data[f].n, FALSE)
          ELSE data[f]]

MergeFields(product, data) ==
  [f \in (DOMAIN product) \cup (DOMAIN data) |->
     IF f \in DOMAIN data THEN data[f] ELSE product[f]]

updateProduct(cat, id, data) ==
  [cat EXCEPT ![id] = MergeFields(cat[id], data)]

----------------------------------------------------------------------------
(* Retry configuration and the message processors *)

maxRetries == 3
retryDelay == 1000
backoffMultiplier == 2

\* mutants: one retry fewer; one retry more; retry for ever; retry of
\* transient failures only
ShouldRetryAlways(retries, status) == TRUE

ShouldRetryOneFewer(retries, status) == retries > 1

ShouldRetryOneMore(retries, status) == retries >= 0

ShouldRetryTransientOnly(retries, status) == retries > 0 /\ status = 503

\* withRetry: `if (retries > 0)` in the catch block, whatever the error is
ShouldRetry(retries, status) == retries > 0

TargetKey(topic) == IF topic = TOPICS.PRODUCT_UPDATES THEN "id" ELSE "productId"

\* mutants: no lookup at all; the lookup made whenever the message has a sku
NeedsLookupNever(topic, m) == FALSE

NeedsLookupBySku(topic, m) == Truthy(Field(m, "sku"))

\* `if (!productId && message.sku)` / `if (!productId)`
NeedsLookup(topic, m) ==
  IF topic = TOPICS.PRODUCT_UPDATES
  THEN ~Truthy(Field(m, "id")) /\ Truthy(Field(m, "sku"))
  ELSE ~Truthy(Field(m, "productId"))

\* second `if (!productId)` of processProductUpdate
NoTarget(topic, m) ==
  /\ topic = TOPICS.PRODUCT_UPDATES
  /\ ~Truthy(Field(m, "id"))
  /\ ~Truthy(Field(m, "sku"))

\* mutants: no special case for 404; every failed lookup taken as not found
IsNotFoundNever(status) == FALSE

IsNotFoundAnyError(status) == status # 200

\* error.response?.status === 404 in the catch around apiClient.get
IsNotFound(status) == status = 404

TruthyKeys == {"name", "description", "category", "brand", "weight", "unit"}

\* mutant: a full record, the absent fields sent as undefined
ProductUpdateDataFull(m) ==
  [f \in TruthyKeys \cup {"isActive"} |-> Field(m, f)]

\* updateData of processProductUpdate
ProductUpdateData(m) ==
  LET keys == {f \in TruthyKeys : Truthy(Field(m, f))} \cup
              {f \in {"isActive"} : Field(m, f).t = "boolean"}
  IN [f \in keys |-> m[f]]

\* mutant: the sku is sent along with the price
PriceUpdateDataWithSku(m) == [price |-> m.price, sku |-> m.sku]

PriceUpdateData(m) == [price |-> m.price]

StockUpdateData(m) == [stock |-> m.stock]

UpdateData(topic, m) ==
  CASE topic = TOPICS.PRODUCT_UPDATES -> ProductUpdateData(m)
    [] topic = TOPICS.PRICE_UPDATES -> PriceUpdateData(m)
    [] topic = TOPICS.STOCK_UPDATES -> StockUpdateData(m)

\* `${message.sku}` in the lookup path: an absent sku prints as "undefined"
SkuText(m) == IF "sku" \in DOMAIN m THEN m.sku.s ELSE "undefined"

Call(method, target, body) ==
  [method |-> method, target |-> target, body |-> body, status |-> 0]

Log(level, msg, ref, val) == [level |-> level, msg |-> msg, ref |-> ref, val |-> val]

ProcessingLog(topic, m) ==
  CASE topic = TOPICS.PRODUCT_UPDATES ->
         Log("info", "Processing product update", SkuText(m), Field(m, "id"))
    [] topic = TOPICS.PRICE_UPDATES ->
         Log("info", "Processing price update", SkuText(m), m.price)
    [] topic = TOPICS.STOCK_UPDATES ->
         Log("info", "Processing stock update", SkuText(m), m.stock)

SuccessLog(topic, m, id) ==
  CASE topic = TOPICS.PRODUCT_UPDATES ->
         Log("info", "Product updated successfully", id, Undefined)
    [] topic = TOPICS.PRICE_UPDATES ->
         Log("info", "Price updated successfully", id, m.price)
    [] topic = TOPICS.STOCK_UPDATES ->
         Log("info", "Stock updated successfully", id, m.stock)

\* mutants: try/catch around the processor calls only; around the parsing
\* only
CatchesHttpOnly(err) == err = "AxiosError"

CatchesParseOnly(err) == err \in {"SyntaxError", "ZodError"}

\* mutant: the try opened after JSON.parse
CatchesAfterParse(err) == err \in {"ZodError", "AxiosError"}

\* the catch block of handleMessage takes every error thrown in the try
Catches(err) == TRUE

ErrorLog(err) == Log("error", "Error processing message", err, Undefined)

NoJob == [topic |-> "", value |-> NullValue, msg |-> NoFields,
          retries |-> 0, delay |-> 0, productId |-> ""]

----------------------------------------------------------------------------
(* handleMessage and withRetry, one step per suspension point *)

\* handleMessage returns normally
Return(lg) ==
  /\ pc' = "idle"
  /\ log' = lg
  /\ result' = "returned"
  /\ UNCHANGED wvars

\* an error reaches the try/catch of handleMessage; an error it did not
\* take would reach the consumer's runner
Raise(err, lg) ==
  /\ pc' = "idle"
  /\ IF Catches(err)
     THEN /\ log' = Append(lg, ErrorLog(err))
          /\ result' = "returned"
          /\ UNCHANGED wvars
     ELSE /\ log' = lg
          /\ result' = "threw"
          /\ phase' = "crashed"
          /\ UNCHANGED <<isRunning, exitCode>>

\* one invocation of the operation handed to withRetry, up to its first
\* await (or to its return when it awaits nothing)
Operation(j, lg, cl, n) ==
  /\ attempts' = n + 1
  /\ IF NeedsLookup(j.topic, j.msg)
     THEN /\ calls' = Append(cl, Call("GET", SkuText(j.msg), NoFields))
          /\ pc' = "get"
          /\ job' = j
          /\ log' = lg
          /\ UNCHANGED <<result, wvars>>
     ELSE IF NoTarget(j.topic, j.msg)
     THEN /\ calls' = cl
          /\ job' = j
          /\ Return(Append(lg, Log("error", "No product ID or SKU provided in message",
                                   "", Undefined)))
     ELSE /\ calls' = Append(cl, Call("PUT", Field(j.msg, TargetKey(j.topic)).s,
                                      UpdateData(j.topic, j.msg)))
          /\ pc' = "put"
          /\ job' = [j EXCEPT !.productId = Field(j.msg, TargetKey(j.topic)).s]
          /\ log' = lg
          /\ UNCHANGED <<result, wvars>>

\* the catch block of withRetry, for an operation that threw
Failed(status, cl) ==
  /\ calls' = cl
  /\ UNCHANGED <<job, attempts>>
  /\ IF ShouldRetry(job.retries, status)
     THEN /\ log' = Append(log, Log("warn", "Operation failed, retrying", "",
                                    Num(job.delay, FALSE)))
          /\ delays' = Append(delays, job.delay)
          /\ pc' = "backoff"
          /\ UNCHANGED <<result, wvars>>
     ELSE /\ Raise("AxiosError", log)
          /\ UNCHANGED delays

Answered(cl, status) == [cl EXCEPT ![Len(cl)].status = status]

\* mutant: the default branch of the switch throws
DefaultBranchThrows(topic, lg) == Raise("Error", lg)

\* default: logger.warn(`Unknown topic: ${topic}`)
DefaultBranch(topic, lg) ==
  Return(Append(lg, Log("warn", "Unknown topic", topic, Undefined)))

\* mutant: the runner keeps fetching until the process exits
ConsumerRunningUntilExit(ph) == ph \in {"consuming", "started", "stopping"}

\* the runner of the consumer calls eachMessage from consumer.run() on,
\* until consumer.disconnect() is called
ConsumerRunning(ph) == ph \in {"consuming", "started"}

\* handleMessage({ topic, partition, message }) up to its first await
handleMessage(topic, value) ==
  /\ ConsumerRunning(phase)
  /\ pc = "idle"
  /\ delays' = <<>>
  /\ UNCHANGED catalog
  /\ LET j0 == [NoJob EXCEPT !.topic = topic, !.value = value]
         received == Log("debug", "Received message", topic, Undefined)
     IN CASE value.kind \in {"null", "empty"} ->
               /\ job' = j0 /\ calls' = <<>> /\ attempts' = 0
               /\ Return(<<Log("warn", "Received empty message", topic, Undefined)>>)
          [] value.kind = "garbage" ->
               /\ job' = j0 /\ calls' = <<>> /\ attempts' = 0
               /\ Raise("SyntaxError", <<>>)
          [] value.kind = "json" /\ topic \notin Topics ->
               /\ job' = j0 /\ calls' = <<>> /\ attempts' = 0
               /\ DefaultBranch(topic, <<received>>)
          [] value.kind = "json" /\ topic \in Topics
               /\ ~ZodSuccess(SchemaOf(topic), value.data) ->
               /\ job' = j0 /\ calls' = <<>> /\ attempts' = 0
               /\ Raise("ZodError", <<received>>)
          [] value.kind = "json" /\ topic \in Topics
               /\ ZodSuccess(SchemaOf(topic), value.data) ->
               LET m == ZodOutput(SchemaOf(topic), value.data)
                   j == [j0 EXCEPT !.msg = m, !.retries = maxRetries,
                                   !.delay = retryDelay]
               IN Operation(j, <<received, ProcessingLog(topic, m)>>, <<>>, 0)

\* state the handling of a message leaves alone
svars == <<atStop, starting, pvars, bvars>>

NoPrev == [replay |-> FALSE, puts |-> <<>>, errors |-> 0, catalog |-> InitialCatalog]

Applied(cl) == SelectSeq(cl, LAMBDA c : c.method = "PUT" /\ c.status = 200)

Errors(lg) == Len(SelectSeq(lg, LAMBDA e : e.level = "error"))

\* the bus delivers the next message to eachMessage
Deliver ==
  /\ delivered < MaxMessages
  /\ result = "none"
  /\ \E topic \in DeliveredTopics : \E value \in ValuesOf(topic) :
       handleMessage(topic, value)
  /\ delivered' = delivered + 1
  /\ prev' = NoPrev
  /\ UNCHANGED svars

\* the offset of the handled message is committed: the consumer is ready
\* for the next message of the partition
Commit ==
  /\ phase \in {"consuming", "started", "stopping"}
  /\ pc = "idle"
  /\ result = "returned"
  /\ job' = NoJob
  /\ calls' = <<>>
  /\ delays' = <<>>
  /\ attempts' = 0
  /\ log' = <<>>
  /\ result' = "none"
  /\ prev' = NoPrev
  /\ UNCHANGED <<wvars, pc, catalog, delivered, svars>>

\* the bus delivers the handled message once more, its offset not being
\* committed yet (delivery is at least once)
Redeliver ==
  /\ delivered < MaxMessages
  /\ result = "returned"
  /\ handleMessage(job.topic, job.value)
  /\ delivered' = delivered + 1
  /\ prev' = [replay |-> TRUE, puts |-> Applied(calls), errors |-> Errors(log),
              catalog |-> catalog]
  /\ UNCHANGED svars

\* the answer to the pending apiClient.get
GetResponse ==
  /\ pc = "get"
  /\ \E status \in GetStatuses(catalog, calls[Len(calls)].target) :
       LET cl == Answered(calls, status) IN
       IF status = 200
       THEN LET id == CHOOSE i \in SkuMatches(catalog, calls[Len(calls)].target) : TRUE
            IN /\ calls' = Append(cl, Call("PUT", id, UpdateData(job.topic, job.msg)))
               /\ job' = [job EXCEPT !.productId = id]
               /\ pc' = "put"
               /\ UNCHANGED <<log, result, wvars, attempts, delays>>
       ELSE IF IsNotFound(status)
       THEN /\ calls' = cl
            /\ Return(Append(log, Log("error", "Product not found for SKU",
                                      SkuText(job.msg), Undefined)))
            /\ UNCHANGED <<job, attempts, delays>>
       ELSE Failed(status, cl)
  /\ UNCHANGED <<catalog, delivered, prev, svars>>

\* the answer to the pending apiClient.put
PutResponse ==
  /\ pc = "put"
  /\ \E status \in PutStatuses(catalog, job.productId) :
       LET cl == Answered(calls, status) IN
       IF status = 200
       THEN /\ catalog' = updateProduct(catalog, job.productId, calls[Len(calls)].body)
            /\ calls' = cl
            /\ Return(Append(log, SuccessLog(job.topic, job.msg, job.productId)))
            /\ UNCHANGED <<job, attempts, delays>>
       ELSE /\ Failed(status, cl)
            /\ UNCHANGED catalog
  /\ UNCHANGED <<delivered, prev, svars>>

\* the setTimeout of withRetry fires: withRetry(operation, retries - 1,
\* delay * backoffMultiplier)
BackoffDone ==
  /\ pc = "backoff"
  /\ UNCHANGED delays
  /\ Operation([job EXCEPT !.retries = job.retries - 1,
                           !.delay = job.delay * backoffMultiplier], log, calls,
               attempts)
  /\ UNCHANGED <<catalog, delivered, prev, svars>>

----------------------------------------------------------------------------
(* The consumer over several partitions: consumer.run calls eachMessage
   for the messages of a partition one after the other, each call awaited,
   and for partitionsConsumedConcurrently partitions at a time *)

NumPartitions == 2
MaxDispatched == 3
\* mutant: as many partitions at a time as the topic has
partitionsConsumedConcurrentlyAll == NumPartitions + MaxDispatched

\* partitionsConsumedConcurrently: 3
partitionsConsumedConcurrently == 3

Partitions == 1..NumPartitions

RECURSIVE SumTo(_, _)
SumTo(f, n) == IF n = 0 THEN 0 ELSE f[n] + SumTo(f, n - 1)

\* number of messages handed out so far, over all partitions
Dispatched == SumTo(offset, NumPartitions)

\* the messages of the partitions: price and stock events for the product
\* p1, by id and by sku, with timestamps in both orders, and a bad price
PEvents ==
  {[topic |-> TOPICS.PRICE_UPDATES,
    value |-> JsonValue([productId |-> Str("p1"), sku |-> Str("A"),
                         price |-> Num(3, TRUE), timestamp |-> Num(2, FALSE)])],
   [topic |-> TOPICS.PRICE_UPDATES,
    value |-> JsonValue([sku |-> Str("A"), price |-> Num(4, FALSE),
                         timestamp |-> Num(1, FALSE)])],
   [topic |-> TOPICS.STOCK_UPDATES,
    value |-> JsonValue([productId |-> Str("p1"), sku |-> Str("A"),
                         stock |-> Num(5, FALSE), timestamp |-> Num(1, FALSE)])],
   [topic |-> TOPICS.PRICE_UPDATES,
    value |-> JsonValue([productId |-> Str("p1"), sku |-> Str("A"),
                         price |-> Num(-1, FALSE), timestamp |-> Num(3, FALSE)])]}

\* mutant: the processor call is not awaited
HandlerAwaitsNothing == FALSE

\* `await this.processor.process...Update(...)`: the promise of
\* handleMessage stays pending until the processor is done
HandlerAwaits == TRUE

Task(p, off, topic, m) ==
  [partition |-> p, offset |-> off, topic |-> topic, msg |-> m, pc |-> "new",
   retries |-> maxRetries, productId |-> ""]

\* operation() up to its first await: the lookup, or the PUT when the
\* message names its target
Begin(t) ==
  IF NeedsLookup(t.topic, t.msg)
  THEN [t EXCEPT !.pc = "get"]
  ELSE [t EXCEPT !.pc = "put", !.productId = Field(t.msg, TargetKey(t.topic)).s]

\* handleMessage returns and its promise resolves
Settle(t) ==
  /\ tasks' = tasks \ {t}
  /\ busy' = [busy EXCEPT ![t.partition] = FALSE]

\* an error thrown inside the try of handleMessage
Caught(err) ==
  IF Catches(err)
  THEN UNCHANGED wvars
  ELSE phase' = "crashed" /\ UNCHANGED <<isRunning, exitCode>>

\* the catch block of withRetry for task t
TaskFailed(t, status) ==
  IF ShouldRetry(t.retries, status)
  THEN /\ tasks' = (tasks \ {t}) \cup {[t EXCEPT !.pc = "backoff"]}
       /\ UNCHANGED <<busy, dropped, wvars>>
  ELSE /\ Settle(t)
       /\ dropped' = dropped + 1
       /\ Caught("AxiosError")

\* the runner hands the next message of partition p to eachMessage; parts
\* are the partitions assigned to the consumer, evs the events they carry
\* and max the number of messages they hold in all
DispatchIn(parts, evs, max, p) ==
  /\ ConsumerRunning(phase)
  /\ ~busy[p]
  /\ SumTo(offset, Cardinality(parts)) < max
  /\ Cardinality({q \in parts : busy[q]}) < partitionsConsumedConcurrently
  /\ offset' = [offset EXCEPT ![p] = offset[p] + 1]
  /\ \E e \in evs :
       IF ZodSuccess(SchemaOf(e.topic), e.value.data)
       THEN LET m == ZodOutput(SchemaOf(e.topic), e.value.data)
                t == Begin(Task(p, offset[p] + 1, e.topic, m))
            IN /\ tasks' = tasks \cup {t}
               /\ busy' = [busy EXCEPT ![p] = HandlerAwaits]
               /\ issued' = [issued EXCEPT ![p] = t.offset]
               /\ UNCHANGED <<dropped, wvars>>
       ELSE /\ dropped' = dropped + 1
            /\ Caught("ZodError")
            /\ UNCHANGED <<tasks, busy, issued>>
  /\ UNCHANGED <<writes, catalog>>

\* the answer to the pending apiClient.get of task t
TaskGet(t) ==
  /\ t.pc = "get"
  /\ \E status \in GetStatuses(catalog, SkuText(t.msg)) :
       IF status = 200
       THEN LET id == CHOOSE i \in SkuMatches(catalog, SkuText(t.msg)) : TRUE
            IN /\ tasks' = (tasks \ {t}) \cup
                             {[t EXCEPT !.pc = "put", !.productId = id]}
               /\ issued' = [issued EXCEPT ![t.partition] = t.offset]
               /\ UNCHANGED <<busy, dropped, wvars>>
       ELSE IF IsNotFound(status)
       THEN /\ Settle(t)
            /\ dropped' = dropped + 1
            /\ UNCHANGED <<issued, wvars>>
       ELSE /\ TaskFailed(t, status)
            /\ UNCHANGED issued
  /\ UNCHANGED <<offset, writes, catalog>>

\* the answer to the pending apiClient.put of task t
TaskPut(t) ==
  /\ t.pc = "put"
  /\ \E status \in PutStatuses(catalog, t.productId) :
       IF status = 200
       THEN /\ catalog' = updateProduct(catalog, t.productId,
                                        UpdateData(t.topic, t.msg))
            /\ writes' = Append(writes, [partition |-> t.partition,
                                         offset |-> t.offset,
                                         target |-> t.productId,
                                         body |-> UpdateData(t.topic, t.msg),
                                         timestamp |-> t.msg.timestamp])
            /\ Settle(t)
            /\ UNCHANGED <<dropped, wvars>>
       ELSE /\ TaskFailed(t, status)
            /\ UNCHANGED <<catalog, writes>>
  /\ UNCHANGED <<offset, issued>>

\* the backoff timer of task t fires: withRetry runs the operation again
TaskBackoff(t) ==
  /\ t.pc = "backoff"
  /\ tasks' = (tasks \ {t}) \cup {Begin([t EXCEPT !.retries = t.retries - 1])}
  /\ issued' = [issued EXCEPT ![t.partition] = t.offset]
  /\ UNCHANGED <<busy, offset, writes, dropped, catalog, wvars>>

Dispatch(p) == DispatchIn(Partitions, PEvents, MaxDispatched, p)

\* state of the one-partition view, which the partitions leave alone
mvars == <<pc, job, calls, delays, attempts, log, result, delivered, prev,
           atStop, starting, bvars>>

DispatchOn(p) == Dispatch(p) /\ UNCHANGED mvars

\* the next step of task t, whichever it is
TaskStep(t) ==
  /\ TaskGet(t) \/ TaskPut(t) \/ TaskBackoff(t)
  /\ UNCHANGED mvars

Dispatching == \E p \in Partitions : DispatchOn(p)

GetAnswered == (\E t \in tasks : TaskGet(t)) /\ UNCHANGED mvars

PutAnswered == (\E t \in tasks : TaskPut(t)) /\ UNCHANGED mvars

BackoffElapsed == (\E t \in tasks : TaskBackoff(t)) /\ UNCHANGED mvars

(* A topic with more partitions than the consumer handles at a time *)

MaxWide == 4

\* one partition more than partitionsConsumedConcurrently
WidePartitions == 1..(partitionsConsumedConcurrently + 1)

\* the messages of these partitions: price events that name the product
\* by sku
WEvents ==
  {[topic |-> TOPICS.PRICE_UPDATES,
    value |-> JsonValue([sku |-> Str("A"), price |-> Num(4, FALSE),
                         timestamp |-> Num(1, FALSE)])]}

DispatchingWide ==
  /\ \E p \in WidePartitions : DispatchIn(WidePartitions, WEvents, MaxWide, p)
  /\ UNCHANGED mvars

----------------------------------------------------------------------------
(* ERPSyncWorker.start / stop and the process handlers *)

hvars == <<pc, job, calls, delays, attempts, log, result, catalog,
           delivered, prev, bvars>>

\* await this.consumer.connect()
Connect ==
  /\ phase = "created"
  /\ phase' = "connected"
  /\ UNCHANGED <<isRunning, exitCode, hvars, svars>>

\* await this.consumer.subscribe({ topics, fromBeginning: false })
Subscribe ==
  /\ phase = "connected"
  /\ phase' = "subscribed"
  /\ UNCHANGED <<isRunning, exitCode, hvars, svars>>

\* mutant: the consume loop started without awaiting the subscription
RunUnsubscribed ==
  /\ phase = "connected"
  /\ phase' = "consuming"
  /\ UNCHANGED <<isRunning, exitCode, hvars, svars>>

\* await this.consumer.run({ eachMessage, partitionsConsumedConcurrently })
Run ==
  /\ phase = "subscribed"
  /\ phase' = "consuming"
  /\ UNCHANGED <<isRunning, exitCode, hvars, svars>>

\* this.isRunning = true
MarkRunning ==
  /\ phase = "consuming"
  /\ phase' = "started"
  /\ isRunning' = TRUE
  /\ UNCHANGED <<exitCode, hvars, svars>>

\* connect, subscribe or run rejects: start() rethrows, the bootstrap
\* catch calls process.exit(1)
StartFails ==
  /\ phase \in {"created", "connected", "subscribed"}
  /\ phase' = "exited"
  /\ exitCode' = 1
  /\ UNCHANGED <<isRunning, hvars, svars>>

\* the await of start() that has not resolved yet in a phase of start();
\* the assignment after `await this.consumer.run()` runs in the tick in
\* which run() resolved, before any signal handler, so nothing is pending
\* for a signal that arrives then
PendingAwait(ph) ==
  CASE ph = "created" -> "connect"
    [] ph = "connected" -> "subscribe"
    [] ph = "subscribed" -> "run"
    [] OTHER -> ""

\* mutant: the signal handlers registered only once start() has returned
SignalWhenStarted ==
  /\ phase = "started"
  /\ phase' = "stopping"
  /\ isRunning' = FALSE
  /\ atStop' = pc
  /\ starting' = ""
  /\ UNCHANGED <<exitCode, hvars, pvars>>

\* SIGTERM / SIGINT: gracefulShutdown calls stop(), which clears isRunning
\* and calls consumer.disconnect().  The handlers are registered before
\* worker.start() is called, so start() may still be awaiting a step
Signal ==
  /\ phase \in {"created", "connected", "subscribed", "consuming", "started"}
  /\ phase' = "stopping"
  /\ isRunning' = FALSE
  /\ atStop' = pc
  /\ starting' = PendingAwait(phase)
  /\ UNCHANGED <<exitCode, hvars, pvars>>

\* the step start() was awaiting resolves while stop() awaits the
\* disconnect: start() goes on where it was, and after run() it sets
\* this.isRunning = true
StartResumes ==
  /\ phase = "stopping"
  /\ starting # ""
  /\ starting' = CASE starting = "connect" -> "subscribe"
                   [] starting = "subscribe" -> "run"
                   [] OTHER -> ""
  /\ isRunning' = IF starting = "run" THEN TRUE ELSE isRunning
  /\ UNCHANGED <<phase, exitCode, atStop, hvars, pvars>>

\* the step start() was awaiting rejects while stop() awaits the
\* disconnect: start() rethrows, the bootstrap catch calls process.exit(1)
StartFailsLate ==
  /\ phase = "stopping"
  /\ starting \in {"connect", "subscribe", "run"}
  /\ phase' = "exited"
  /\ exitCode' = 1
  /\ UNCHANGED <<isRunning, hvars, svars>>

\* consumer.disconnect() resolves: the runner first waits for the
\* eachMessage call in flight to return and commits what it handled;
\* stop() logs and returns
Disconnected ==
  /\ phase = "stopping"
  /\ pc = "idle"
  /\ result = "none"
  /\ tasks = {}
  /\ phase' = "stopped"
  /\ UNCHANGED <<isRunning, exitCode, hvars, svars>>

\* consumer.disconnect() rejects: stop() rethrows, the rejection of
\* gracefulShutdown reaches the unhandledRejection handler
StopFails ==
  /\ phase = "stopping"
  /\ pc = "idle"
  /\ result = "none"
  /\ tasks = {}
  /\ phase' = "exited"
  /\ exitCode' = 1
  /\ UNCHANGED <<isRunning, hvars, svars>>

\* mutant: worker.stop() not awaited before process.exit(0)
ExitReadyNoAwait(ph) == ph \in {"stopping", "stopped"}

\* `await worker.stop()` of gracefulShutdown
ExitReady(ph) == ph = "stopped"

\* process.exit(0) of gracefulShutdown
Exit ==
  /\ ExitReady(phase)
  /\ phase' = "exited"
  /\ exitCode' = 0
  /\ UNCHANGED <<isRunning, hvars, svars>>

----------------------------------------------------------------------------
(* ProductService.getProductById / updateProduct over the database row and
   the redis copy of one product.  The row is followed by its version: every
   update writes the next one. *)

MaxProductCalls == 3

NoGet == [floor |-> 0, value |-> 0, fromCache |-> FALSE, done |-> FALSE]

ProductCall(n, op) ==
  [id |-> n, op |-> op, pc |-> "cacheGet", read |-> 0, wrote |-> 0,
   floor |-> returned]

\* the call c moves on as c2
ProductStep(c, c2) == pcalls' = (pcalls \ {c}) \cup {c2}

\* `return product` of getProductById inside call c: a getProductById call
\* returns to its caller, updateProduct goes on to the update
AfterGetProduct(c, value, cached) ==
  IF c.op = "get"
  THEN /\ pcalls' = pcalls \ {c}
       /\ lastGet' = [floor |-> c.floor, value |-> value,
                      fromCache |-> cached, done |-> TRUE]
  ELSE /\ ProductStep(c, [c EXCEPT !.pc = "dbUpdate"])
       /\ UNCHANGED lastGet

\* a request calls getProductById(id)
BeginGet ==
  /\ pbegun < MaxProductCalls
  /\ pbegun' = pbegun + 1
  /\ pcalls' = pcalls \cup {ProductCall(pbegun + 1, "get")}
  /\ UNCHANGED <<productRow, productCache, returned, lastGet, workervars, uservars>>

\* a request calls updateProduct(id, data), which first calls
\* getProductById(id)
BeginUpdate ==
  /\ pbegun < MaxProductCalls
  /\ pbegun' = pbegun + 1
  /\ pcalls' = pcalls \cup {ProductCall(pbegun + 1, "update")}
  /\ UNCHANGED <<productRow, productCache, returned, lastGet, workervars, uservars>>

\* `if (!product)` after cache.get: a cached copy is returned as it is
CacheHit(cached) == cached # <<>>

\* cache.get(cacheKey) answers
ProductCacheGet ==
  /\ \E c \in pcalls :
       /\ c.pc = "cacheGet"
       /\ IF CacheHit(productCache)
          THEN AfterGetProduct(c, productCache[1], TRUE)
          ELSE /\ ProductStep(c, [c EXCEPT !.pc = "dbRead"])
               /\ UNCHANGED lastGet
  /\ UNCHANGED <<productRow, productCache, pbegun, returned, workervars, uservars>>

\* prisma.product.findUnique answers
ProductDbRead ==
  /\ \E c \in pcalls :
       /\ c.pc = "dbRead"
       /\ ProductStep(c, [c EXCEPT !.pc = "cacheSet", !.read = productRow])
  /\ UNCHANGED <<productRow, productCache, pbegun, returned, lastGet,
                 workervars, uservars>>

\* cache.set(cacheKey, product, CACHE_TTL) answers
ProductCacheSet ==
  /\ \E c \in pcalls :
       /\ c.pc = "cacheSet"
       /\ productCache' = <<c.read>>
       /\ AfterGetProduct(c, c.read, FALSE)
  /\ UNCHANGED <<productRow, pbegun, returned, workervars, uservars>>

\* prisma.product.update answers
ProductDbUpdate ==
  /\ \E c \in pcalls :
       /\ c.pc = "dbUpdate"
       /\ productRow' = productRow + 1
       /\ ProductStep(c, [c EXCEPT !.pc = "cacheDel", !.wrote = productRow + 1])
  /\ UNCHANGED <<productCache, pbegun, returned, lastGet, workervars, uservars>>

\* cache.del(CACHE_KEYS.PRODUCT(productId)) answers and updateProduct
\* returns
ProductCacheDel ==
  /\ \E c \in pcalls :
       /\ c.pc = "cacheDel"
       /\ productCache' = <<>>
       /\ pcalls' = pcalls \ {c}
       /\ returned' = IF c.wrote > returned THEN c.wrote ELSE returned
  /\ UNCHANGED <<productRow, pbegun, lastGet, workervars, uservars>>

ProductInit ==
  /\ productRow = 0
  /\ productCache = <<>>
  /\ pcalls = {}
  /\ pbegun = 0
  /\ returned = 0
  /\ lastGet = NoGet

----------------------------------------------------------------------------
(* UserService.registerUser / loginUser / approveUser / adminUpdateUser and
   the authenticate + memberOrAdmin middleware, over the database row and
   the redis copy of one user *)

MaxUserCalls == 3

NoUser == [exists |-> FALSE, role |-> "", isActive |-> FALSE]

User(role, active) == [exists |-> TRUE, role |-> role, isActive |-> active]

NoEvent == [op |-> "", ok |-> FALSE, stored |-> NoUser, after |-> NoUser]

\* what a call did, beside the row at that moment
Event(op, ok, after) ==
  [op |-> op, ok |-> ok, stored |-> userRow, after |-> after]

UserCall(n, op, data) ==
  [id |-> n, op |-> op, pc |-> IF op = "admin" THEN "dbUpdate"
                               ELSE IF op = "login" THEN "find"
                               ELSE "cacheGet",
   user |-> NoUser, data |-> data]

\* roles adminUpdateUser is asked to set
AdminRoles == {"PENDING", "ADMIN"}

UserStep(c, c2) == ucalls' = (ucalls \ {c}) \cup {c2}

\* registerUser: no user has the email, prisma.user.create stores the user
\* with role PENDING; isActive takes the default of the schema
registerUser ==
  /\ ~userRow.exists
  /\ \E active \in BOOLEAN :
       /\ userRow' = User("PENDING", active)
       /\ uevent' = Event("register", TRUE, User("PENDING", active))
  /\ UNCHANGED <<userCache, ucalls, ubegun, workervars, prodvars>>

\* a request reaches loginUser, authenticate + memberOrAdmin, approveUser
\* or adminUpdateUser
BeginUserCall ==
  /\ ubegun < MaxUserCalls
  /\ ubegun' = ubegun + 1
  /\ \E op \in {"login", "browse", "approve", "admin"} :
       \E data \in (IF op = "approve" THEN {"approve", "deny"}
                    ELSE IF op = "admin" THEN AdminRoles ELSE {""}) :
         ucalls' = ucalls \cup {UserCall(ubegun + 1, op, data)}
  /\ UNCHANGED <<userRow, userCache, uevent, workervars, prodvars>>

\* the checks of loginUser on the row it found
LoginChecks(user, passwordOk) ==
  user.exists /\ user.isActive /\ passwordOk /\ user.role # "PENDING"

\* loginUser: prisma.user.findUnique by email answers, then the checks
LoginFind ==
  /\ \E c \in ucalls :
       /\ c.op = "login"
       /\ c.pc = "find"
       /\ \E passwordOk \in BOOLEAN :
            IF LoginChecks(userRow, passwordOk)
            THEN /\ UserStep(c, [c EXCEPT !.pc = "dbUpdate", !.user = userRow])
                 /\ UNCHANGED uevent
            ELSE /\ ucalls' = ucalls \ {c}
                 /\ uevent' = Event("login", FALSE, userRow)
  /\ UNCHANGED <<userRow, userCache, ubegun, workervars, prodvars>>

\* loginUser: prisma.user.update of lastLogin answers
LoginUpdate ==
  /\ \E c \in ucalls :
       /\ c.op = "login"
       /\ c.pc = "dbUpdate"
       /\ UserStep(c, [c EXCEPT !.pc = "cacheDel"])
  /\ UNCHANGED <<userRow, userCache, ubegun, uevent, workervars, prodvars>>

\* loginUser: cache.del answers and the call returns the user
LoginDone ==
  /\ \E c \in ucalls :
       /\ c.op = "login"
       /\ c.pc = "cacheDel"
       /\ userCache' = <<>>
       /\ ucalls' = ucalls \ {c}
       /\ uevent' = Event("login", TRUE, userRow)
  /\ UNCHANGED <<userRow, ubegun, workervars, prodvars>>

\* the checks of authenticate on the user getUser gave, then memberOrAdmin
\* on req.user.role
AuthChecks(user) ==
  /\ user.exists
  /\ user.isActive
  /\ user.role # "PENDING"
  /\ user.role \in {"MEMBER", "ADMIN"}

\* approveUser: `if (user.role !== 'PENDING') throw new ValidationError`
Approvable(user) == user.role = "PENDING"

\* getUser / getUserById has the user u inside call c: the middleware
\* decides, approveUser checks the role and goes on to the update
AfterGetUser(c, u) ==
  IF c.op = "browse"
  THEN /\ ucalls' = ucalls \ {c}
       /\ uevent' = Event("browse", AuthChecks(u), u)
  ELSE IF Approvable(u)
  THEN /\ UserStep(c, [c EXCEPT !.pc = "dbUpdate", !.user = u])
       /\ UNCHANGED uevent
  ELSE /\ ucalls' = ucalls \ {c}
       /\ uevent' = Event("approve", FALSE, userRow)

\* getUser / getUserById: cache.get answers
UserCacheGet ==
  /\ \E c \in ucalls :
       /\ c.pc = "cacheGet"
       /\ IF userCache # <<>>
          THEN AfterGetUser(c, userCache[1])
          ELSE /\ UserStep(c, [c EXCEPT !.pc = "dbRead"])
               /\ UNCHANGED uevent
  /\ UNCHANGED <<userRow, userCache, ubegun, workervars, prodvars>>

\* getUser / getUserById: prisma.user.findUnique answers; without a row
\* getUser returns null and getUserById throws NotFoundError
UserDbRead ==
  /\ \E c \in ucalls :
       /\ c.pc = "dbRead"
       /\ IF userRow.exists
          THEN /\ UserStep(c, [c EXCEPT !.pc = "cacheSet", !.user = userRow])
               /\ UNCHANGED uevent
          ELSE /\ ucalls' = ucalls \ {c}
               /\ uevent' = Event(c.op, FALSE, NoUser)
  /\ UNCHANGED <<userRow, userCache, ubegun, workervars, prodvars>>

\* getUser / getUserById: cache.set(cacheKey, user, 1800) answers
UserCacheSet ==
  /\ \E c \in ucalls :
       /\ c.pc = "cacheSet"
       /\ userCache' = <<c.user>>
       /\ AfterGetUser(c, c.user)
  /\ UNCHANGED <<userRow, ubegun, workervars, prodvars>>

\* approveUser: prisma.user.update({ role: newRole, isActive }) answers
ApproveUpdate ==
  /\ \E c \in ucalls :
       /\ c.op = "approve"
       /\ c.pc = "dbUpdate"
       /\ userRow.exists
       /\ LET approve == c.data = "approve"
              row == User(IF approve THEN "MEMBER" ELSE "PENDING", approve)
          IN /\ userRow' = row
             /\ uevent' = Event("approve", TRUE, row)
       /\ UserStep(c, [c EXCEPT !.pc = "cacheDel"])
  /\ UNCHANGED <<userCache, ubegun, workervars, prodvars>>

\* adminUpdateUser: prisma.user.update({ role }) answers
AdminUpdate ==
  /\ \E c \in ucalls :
       /\ c.op = "admin"
       /\ c.pc = "dbUpdate"
       /\ userRow.exists
       /\ userRow' = [userRow EXCEPT !.role = c.data]
       /\ uevent' = Event("admin", TRUE, [userRow EXCEPT !.role = c.data])
       /\ UserStep(c, [c EXCEPT !.pc = "cacheDel"])
  /\ UNCHANGED <<userCache, ubegun, workervars, prodvars>>

\* approveUser / adminUpdateUser: cache.del answers and the call returns
UserCacheDel ==
  /\ \E c \in ucalls :
       /\ c.op \in {"approve", "admin"}
       /\ c.pc = "cacheDel"
       /\ userCache' = <<>>
       /\ ucalls' = ucalls \ {c}
  /\ UNCHANGED <<userRow, ubegun, uevent, workervars, prodvars>>

UserInit ==
  /\ userRow = NoUser
  /\ userCache = <<>>
  /\ ucalls = {}
  /\ ubegun = 0
  /\ uevent = NoEvent

BackendInit == ProductInit /\ UserInit

----------------------------------------------------------------------------
Init ==
  /\ phase = "created"
  /\ isRunning = FALSE
  /\ exitCode = -1
  /\ pc = "idle"
  /\ job = NoJob
  /\ calls = <<>>
  /\ delays = <<>>
  /\ attempts = 0
  /\ log = <<>>
  /\ result = "none"
  /\ catalog = InitialCatalog
  /\ delivered = 0
  /\ prev = NoPrev
  /\ atStop = ""
  /\ starting = ""
  /\ tasks = {}
  /\ busy = [p \in Partitions |-> FALSE]
  /\ offset = [p \in Partitions |-> 0]
  /\ issued = [p \in Partitions |-> 0]
  /\ writes = <<>>
  /\ dropped = 0
  /\ BackendInit

Next ==
  \/ Connect
  \/ Subscribe
  \/ Run
  \/ MarkRunning
  \/ StartFails
  \/ Signal
  \/ StartResumes
  \/ StartFailsLate
  \/ Disconnected
  \/ StopFails
  \/ Exit
  \/ Deliver
  \/ Redeliver
  \/ Commit
  \/ GetResponse
  \/ PutResponse
  \/ BackoffDone

Spec == Init /\ [][Next]_vars

\* the worker seen over its partitions
PNext ==
  \/ Connect
  \/ Subscribe
  \/ Run
  \/ MarkRunning
  \/ StartFails
  \/ Signal
  \/ StartResumes
  \/ StartFailsLate
  \/ Disconnected
  \/ StopFails
  \/ Exit
  \/ Dispatching
  \/ GetAnswered
  \/ PutAnswered
  \/ BackoffElapsed

SpecP == Init /\ [][PNext]_vars

\* the product service under concurrent requests
ProductNext ==
  \/ BeginGet
  \/ BeginUpdate
  \/ ProductCacheGet
  \/ ProductDbRead
  \/ ProductCacheSet
  \/ ProductDbUpdate
  \/ ProductCacheDel

SpecProducts == Init /\ [][ProductNext]_vars

\* the user service and the middleware under concurrent requests
UserNext ==
  \/ registerUser
  \/ BeginUserCall
  \/ LoginFind
  \/ LoginUpdate
  \/ LoginDone
  \/ UserCacheGet
  \/ UserDbRead
  \/ UserCacheSet
  \/ ApproveUpdate
  \/ AdminUpdate
  \/ UserCacheDel

SpecUsers == Init /\ [][UserNext]_vars

\* the worker on a topic of WidePartitions partitions
InitWide ==
  /\ phase = "created"
  /\ isRunning = FALSE
  /\ exitCode = -1
  /\ pc = "idle"
  /\ job = NoJob
  /\ calls = <<>>
  /\ delays = <<>>
  /\ attempts = 0
  /\ log = <<>>
  /\ result = "none"
  /\ catalog = InitialCatalog
  /\ delivered = 0
  /\ prev = NoPrev
  /\ atStop = ""
  /\ starting = ""
  /\ tasks = {}
  /\ busy = [p \in WidePartitions |-> FALSE]
  /\ offset = [p \in WidePartitions |-> 0]
  /\ issued = [p \in WidePartitions |-> 0]
  /\ writes = <<>>
  /\ dropped = 0
  /\ BackendInit

WNext ==
  \/ Connect
  \/ Subscribe
  \/ Run
  \/ MarkRunning
  \/ StartFails
  \/ Signal
  \/ StartResumes
  \/ StartFailsLate
  \/ Disconnected
  \/ StopFails
  \/ Exit
  \/ DispatchingWide
  \/ GetAnswered
  \/ PutAnswered
  \/ BackoffElapsed

SpecW == InitWide /\ [][WNext]_vars

\* every pending HTTP call is answered or times out (apiClient has a
\* timeout of 30 s), and every backoff timer fires
FairSpecP ==
  /\ SpecP
  /\ WF_vars(GetAnswered)
  /\ WF_vars(PutAnswered)
  /\ WF_vars(BackoffElapsed)
  /\ WF_vars(Disconnected \/ StopFails)
  /\ WF_vars(Exit)

----------------------------------------------------------------------------
(* Vocabulary of the properties *)

Finished == pc = "idle" /\ result # "none"

LastLog == log[Len(log)]

LastCall == calls[Len(calls)]

Gets == SelectSeq(calls, LAMBDA c : c.method = "GET")

Puts == SelectSeq(calls, LAMBDA c : c.method = "PUT")

IsJson == job.value.kind = "json" /\ job.topic \in Topics

Payload == job.value.data

\* a payload the schemas must refuse, spelled out field by field
BadNumber(v) == v.t # "number"

FailsValidation(topic, d) ==
  \/ BadNumber(Field(d, "timestamp"))
  \/ /\ topic = "price_updates"
     /\ \/ BadNumber(Field(d, "price"))
        \/ Field(d, "price").n < 0
        \/ Field(d, "sku").t # "string"
  \/ /\ topic = "stock_updates"
     /\ \/ BadNumber(Field(d, "stock"))
        \/ Field(d, "stock").n < 0
        \/ Field(d, "stock").h
        \/ Field(d, "sku").t # "string"
  \/ /\ topic = "product_updates"
     /\ Field(d, "id").t # "string"

ValidEvent(topic) == IsJson /\ job.topic = topic /\ ~FailsValidation(topic, Payload)

\* the handling of the message in flight ended on a failure
EndsInFailure ==
  \/ job.value.kind = "garbage"
  \/ IsJson /\ FailsValidation(job.topic, Payload)
  \/ /\ calls # <<>>
     /\ \/ LastCall.status \in {400, 503}
        \/ LastCall.method = "PUT" /\ LastCall.status = 404

HandlingStep == <<pc, calls, log, attempts, delivered>>' # <<pc, calls, log, attempts, delivered>>

IsErrorLog(e) == e.level = "error" /\ e.msg = "Error processing message"

\* every try of the message ended on a transient failure (503 / timeout)
TransientEveryTry ==
  /\ Finished
  /\ calls # <<>>
  /\ LastCall.status = 503
  /\ \A i \in 1..Len(calls) :
       \/ calls[i].status = 503
       \/ calls[i].method = "GET" /\ calls[i].status = 200

----------------------------------------------------------------------------
(* C1: whatever fails while a message is handled (JSON decode, schema
   validation, lookup, update after the retries), handleMessage logs the
   error and returns normally; no step of the handling lets an error out of
   handleMessage or changes the worker's lifecycle state. *)
C1_ErrorIsolation ==
  [][HandlingStep =>
       /\ UNCHANGED wvars
       /\ result' # "threw"
       /\ (pc' = "idle" /\ EndsInFailure') =>
            (result' = "returned" /\ IsErrorLog(LastLog'))]_vars

C1_Witness ==
  /\ Finished
  /\ result = "returned"
  /\ attempts = 4
  /\ LastCall.status = 503
  /\ IsErrorLog(LastLog)
  /\ phase = "started"

(* C2 as stated: transient failure on every try is given up after exactly
   3 invocations, with waits of 1s and 2s. *)
C2_ThreeTries ==
  TransientEveryTry =>
    /\ attempts = 3
    /\ delays = <<1000, 2000>>
    /\ IsErrorLog(LastLog)

(* C2 amended: when every try fails with a transient error, withRetry
   invokes the operation exactly 4 times (the first try and maxRetries = 3
   retries), waits 1s, 2s and 4s between them, and then the failure is
   logged by handleMessage and the message is dropped. *)
C2_FourTries ==
  TransientEveryTry =>
    /\ attempts = 4
    /\ delays = <<1000, 2000, 4000>>
    /\ IsErrorLog(LastLog)
    /\ LastLog.ref = "AxiosError"
    /\ result = "returned"
    /\ Applied(calls) = <<>>

C2_Witness ==
  /\ TransientEveryTry
  /\ job.topic = "price_updates"
  /\ Len(Gets) = 4
  /\ Len(Puts) = 2

\* a PUT of this message was refused with 4xx or 404
RejectedPut(c) == c.method = "PUT" /\ c.status \in {400, 404}

(* C3 as stated: an update refused with 4xx or 404 is attempted exactly
   once for the message and never retried. *)
C3_RejectedOnce ==
  (Finished /\ \E i \in 1..Len(calls) : RejectedPut(calls[i])) =>
    /\ Len(Puts) = 1
    /\ attempts = 1
    /\ delays = <<>>

(* C3 amended: withRetry retries every failure of the update, whatever its
   kind: a PUT refused with 4xx or 404 is followed by a backoff and a new
   try like a transient failure, until 4 tries were made; the error is
   logged once the retries are exhausted.  A message whose PUT is refused
   on every try makes 4 PUT calls. *)
C3_RejectedRetried ==
  /\ \A i \in 1..Len(calls) :
       (RejectedPut(calls[i]) /\ i = Len(calls)) =>
         \/ pc = "backoff" /\ attempts < 4 /\ Len(delays) = attempts
         \/ /\ pc = "idle"
            /\ attempts = 4
            /\ IsErrorLog(LastLog)
  /\ (Finished /\ calls # <<>> /\ \A i \in 1..Len(calls) : RejectedPut(calls[i])) =>
       /\ Len(calls) = 4
       /\ delays = <<1000, 2000, 4000>>

C3_Witness ==
  /\ Finished
  /\ job.topic = "stock_updates"
  /\ Len(calls) = 4
  /\ \A i \in 1..Len(calls) : RejectedPut(calls[i])
  /\ calls[1].status = 400
  /\ IsErrorLog(LastLog)

(* C4: when the SKU lookup of a product, price or stock event is answered
   404, the handling of the message ends there after logging: that GET is
   its only call, no PUT is issued and nothing is retried. *)
C4_LookupNotFound ==
  /\ \A i \in 1..Len(calls) :
       (calls[i].method = "GET" /\ calls[i].status = 404) =>
         /\ i = Len(calls)
         /\ Finished
         /\ result = "returned"
         /\ LastLog.level = "error"
         /\ LastLog.msg = "Product not found for SKU"
  /\ (calls # <<>> /\ calls[1].method = "GET" /\ calls[1].status = 404) =>
       /\ Len(Gets) = 1
       /\ Len(Puts) = 0
       /\ attempts = 1
       /\ delays = <<>>

C4_Witness ==
  /\ Finished
  /\ job.topic = "product_updates"
  /\ Len(calls) = 1
  /\ calls[1].method = "GET"
  /\ calls[1].status = 404

(* C5: a message of any of the three topics whose payload fails schema
   validation (price < 0 or not a number, stock negative or not an integer,
   timestamp missing or not a number, ...) issues no HTTP call at all, and
   its delivery leaves the catalog as it was. *)
C5_ValidationFirst ==
  /\ []((IsJson /\ FailsValidation(job.topic, Payload)) =>
          /\ calls = <<>>
          /\ attempts = 0
          /\ pc = "idle")
  /\ [][(delivered' # delivered /\ IsJson' /\ FailsValidation(job'.topic, Payload'))
          => catalog' = catalog]_vars

C5_Witness ==
  /\ Finished
  /\ job.topic = "price_updates"
  /\ "price" \in DOMAIN Payload
  /\ Payload.price.t = "number"
  /\ Payload.price.n < 0
  /\ ~BadNumber(Field(Payload, "timestamp"))
  /\ Field(Payload, "sku").t = "string"
  /\ calls = <<>>
  /\ IsErrorLog(LastLog)

\* the event lacks what names its target
LacksTarget(topic, d) ==
  \/ topic = "product_updates" /\ "id" \notin DOMAIN d /\ "sku" \notin DOMAIN d
  \/ topic \in {"price_updates", "stock_updates"} /\ "sku" \notin DOMAIN d

(* C6: a product update event that has neither id nor sku, and a price or
   stock event that has no sku, is dropped with a validation-failure log
   and no HTTP call is made for it. *)
C6_MissingTargetDropped ==
  (IsJson /\ LacksTarget(job.topic, Payload)) =>
    /\ Finished
    /\ result = "returned"
    /\ calls = <<>>
    /\ attempts = 0
    /\ IsErrorLog(LastLog)
    /\ LastLog.ref = "ZodError"

C6_Witness ==
  /\ Finished
  /\ job.topic = "stock_updates"
  /\ IsJson
  /\ "sku" \notin DOMAIN Payload
  /\ "productId" \in DOMAIN Payload
  /\ Field(Payload, "stock") = Num(5, FALSE)
  /\ Field(Payload, "timestamp").t = "number"
  /\ IsErrorLog(LastLog)

(* C7: a product update event that has a sku of an existing product and no
   id passes validation, and its handling looks the product up with
   GET /products/sku/{sku} (then PUTs to the resolved id). *)
C7_SkuOnlyProductResolved ==
  (/\ Finished
   /\ IsJson
   /\ job.topic = "product_updates"
   /\ "id" \notin DOMAIN Payload
   /\ Field(Payload, "sku") = Str("A")
   /\ Field(Payload, "timestamp").t = "number") =>
    /\ calls # <<>>
    /\ calls[1].method = "GET"
    /\ calls[1].target = "A"
    /\ ~(IsErrorLog(LastLog) /\ LastLog.ref = "ZodError")

\* a valid stock event whose productId is a non-empty string
StockEventWithId ==
  /\ ValidEvent("stock_updates")
  /\ Field(Payload, "productId").t = "string"
  /\ Field(Payload, "productId").s # ""

ExactlyStock(c) ==
  /\ c.method = "PUT"
  /\ c.target = Payload.productId.s
  /\ DOMAIN c.body = {"stock"}
  /\ c.body.stock = Payload.stock

(* C8 as stated: a valid stock event that carries a productId, once the
   catalog has accepted its update, has issued no GET and exactly one PUT,
   to that productId with the body {stock}. *)
C8_AnyProductId ==
  (/\ Finished
   /\ ValidEvent("stock_updates")
   /\ "productId" \in DOMAIN Payload
   /\ Applied(calls) # <<>>) =>
    /\ Gets = <<>>
    /\ Len(Puts) = 1
    /\ ExactlyStock(Puts[1])

(* C8 amended: a valid stock event that carries a non-empty productId
   (stock = 0 included) never issues a GET, every PUT it issues goes to
   /products/{productId} with the body {stock: <event stock>} and nothing
   else, and when the catalog accepts the first PUT that PUT is its only
   call.  (An empty productId is treated as absent: the SKU is looked up.) *)
C8_DirectStockUpdate ==
  StockEventWithId =>
    /\ Gets = <<>>
    /\ \A i \in 1..Len(calls) : ExactlyStock(calls[i])
    /\ (Finished /\ calls # <<>> /\ calls[1].status = 200) =>
         /\ Len(calls) = 1
         /\ catalog[Payload.productId.s].stock = Payload.stock
         /\ LastLog = Log("info", "Stock updated successfully",
                          Payload.productId.s, Payload.stock)

C8_Witness ==
  /\ Finished
  /\ StockEventWithId
  /\ Payload.stock = Num(0, FALSE)
  /\ Len(calls) = 1
  /\ calls[1].status = 200
  /\ catalog["p1"].stock = Num(0, FALSE)

\* a valid price event without productId, for the sku of product p1
PriceEventBySku ==
  /\ ValidEvent("price_updates")
  /\ "productId" \notin DOMAIN Payload
  /\ Payload.sku = Str("A")

(* C9: for a valid price event without productId whose sku exists, a PUT is
   only ever issued right after a GET of that sku that answered 200, and
   when every call succeeds the calls are exactly one GET /products/sku/{sku}
   followed by one PUT /products/{resolved id} with the body {price}, and
   the success log names that id and price. *)
C9_PriceBySku ==
  PriceEventBySku =>
    /\ \A i \in 1..Len(calls) :
         calls[i].method = "PUT" =>
           /\ i > 1
           /\ calls[i - 1].method = "GET"
           /\ calls[i - 1].target = "A"
           /\ calls[i - 1].status = 200
    /\ (Finished /\ calls # <<>> /\ \A i \in 1..Len(calls) : calls[i].status = 200) =>
         /\ Len(calls) = 2
         /\ calls[1].method = "GET" /\ calls[1].target = "A"
         /\ calls[2].method = "PUT" /\ calls[2].target = "p1"
         /\ DOMAIN calls[2].body = {"price"}
         /\ calls[2].body.price = Payload.price
         /\ catalog["p1"].price = Payload.price
         /\ LastLog = Log("info", "Price updated successfully", "p1", Payload.price)

C9_Witness ==
  /\ Finished
  /\ PriceEventBySku
  /\ Len(calls) = 2
  /\ calls[1].status = 200
  /\ calls[2].status = 200
  /\ catalog["p1"].price = Num(3, TRUE)

\* the message in flight is a redelivery, and both deliveries of it ended
\* with an accepted update
ReplayedTwice ==
  /\ Finished
  /\ prev.replay
  /\ ValidEvent("stock_updates")
  /\ prev.puts # <<>>
  /\ Applied(calls) # <<>>

(* C10: when the same valid stock event is processed twice and the catalog
   accepts the update both times, each processing makes exactly one
   accepted PUT, the two PUTs have the same target and body, neither
   processing logs an error, and the catalog after the second processing
   equals the catalog after the first. *)
C10_IdempotentReplay ==
  ReplayedTwice =>
    /\ Len(prev.puts) = 1
    /\ Len(Applied(calls)) = 1
    /\ Applied(calls)[1].target = prev.puts[1].target
    /\ Applied(calls)[1].body = prev.puts[1].body
    /\ prev.errors = 0
    /\ Errors(log) = 0
    /\ catalog = prev.catalog

C10_Witness ==
  /\ ReplayedTwice
  /\ Payload.stock = Num(5, FALSE)
  /\ "productId" \notin DOMAIN Payload
  /\ catalog["p1"].stock = Num(5, FALSE)
  /\ Len(calls) > 2

----------------------------------------------------------------------------
(* C11: every PUT issued for an event has a body whose fields are all
   present on the event, with the event's values (no field the event lacks
   is sent, neither as null nor as a default); and the update the catalog
   applies leaves every stored field the event does not mention as it was
   and adds no field the event does not mention. *)
C11_FieldLevelMerge ==
  /\ [](\A i \in 1..Len(calls) :
          calls[i].method = "PUT" =>
            \A f \in DOMAIN calls[i].body :
              f \in DOMAIN Payload /\ calls[i].body[f] = Payload[f])
  /\ [][\A id \in DOMAIN catalog :
          /\ \A f \in DOMAIN catalog[id] :
               f \notin DOMAIN Payload' => catalog'[id][f] = catalog[id][f]
          /\ (DOMAIN catalog'[id]) \ (DOMAIN catalog[id]) \subseteq DOMAIN Payload']_vars

C11_Witness ==
  /\ Finished
  /\ ValidEvent("product_updates")
  /\ DOMAIN Payload = {"id", "name", "isActive", "timestamp"}
  /\ Len(Applied(calls)) = 1
  /\ DOMAIN LastCall.body = {"name", "isActive"}
  /\ catalog["p1"].name = Str("Milk")
  /\ catalog["p1"].price = Num(2, FALSE)
  /\ catalog["p1"].stock = Num(7, FALSE)
  /\ "weight" \notin DOMAIN catalog["p1"]

(* C12 as stated: a message makes at most one PUT call over its whole
   handling, retries included. *)
C12_AtMostOnePut == Len(Puts) <= 1

(* C12 amended: every retry of withRetry runs the whole operation again,
   the PUT included, so a message whose PUT fails is followed by further
   PUT calls, up to 4 in total; all of them have the same target and body,
   at most one of them is accepted by the catalog, and the accepted one is
   the last call made for the message. *)
C12_AtMostOneAcceptedPut ==
  /\ Len(Puts) <= 4
  /\ Len(Applied(calls)) <= 1
  /\ \A i \in 1..Len(calls) :
       (calls[i].method = "PUT" /\ calls[i].status = 200) => i = Len(calls)
  /\ \A i, k \in 1..Len(Puts) :
       Puts[i].target = Puts[k].target /\ Puts[i].body = Puts[k].body

C12_Witness ==
  /\ Finished
  /\ Len(Puts) = 4
  /\ Len(Applied(calls)) = 1
  /\ Puts[1].status = 503
  /\ Puts[2].status = 400

----------------------------------------------------------------------------
(* Lifecycle of the worker *)

\* the moves of the lifecycle along connect, subscribe, run, stop
LifecycleOrder ==
  {<<"created", "connected">>, <<"connected", "subscribed">>,
   <<"subscribed", "consuming">>, <<"consuming", "started">>,
   <<"consuming", "stopping">>, <<"started", "stopping">>,
   <<"stopping", "stopped">>, <<"stopped", "exited">>}

\* stop() called by a signal handler while start() has not reached run()
EarlyStops ==
  {<<"created", "stopping">>, <<"connected", "stopping">>,
   <<"subscribed", "stopping">>}

\* the steps of start() in their order, for a start() that goes on while
\* stop() awaits the disconnect
StartOrder ==
  {<<"connect", "subscribe">>, <<"subscribe", "run">>, <<"run", "">>}

\* the process ends with exit code 1 on a failed start or a failed stop
FailureExits ==
  {<<"created", "exited">>, <<"connected", "exited">>,
   <<"subscribed", "exited">>, <<"stopping", "exited">>}

\* the lifecycle leaves the chain connect -> subscribe -> run -> stop ->
\* disconnected only by a failed start or stop, which ends the process
C13_ChainOnly ==
  [][phase' # phase =>
       \/ <<phase, phase'>> \in LifecycleOrder
       \/ <<phase, phase'>> \in FailureExits /\ exitCode' = 1]_vars

(* C13: the lifecycle moves only forward along connect -> subscribe ->
   run -> stop -> disconnected, except that a signal starts the stop from
   any earlier state and that a failed start or stop ends the process with
   code 1: the subscription is made only once the connection succeeded,
   the consume loop is started only once the subscription succeeded, also
   when start() goes on during a stop, and a message is handed to
   handleMessage only while the consume loop runs, never before run() nor
   after stop(). *)
C13_LifecycleOrder ==
  [][/\ phase' # phase =>
          \/ <<phase, phase'>> \in LifecycleOrder \cup EarlyStops
          \/ <<phase, phase'>> \in FailureExits /\ exitCode' = 1
     /\ (starting' # starting /\ phase = "stopping") =>
          <<starting, starting'>> \in StartOrder
     /\ (phase' = "subscribed" /\ phase # "subscribed") => phase = "connected"
     /\ (phase' = "consuming" /\ phase # "consuming") => phase = "subscribed"
     /\ delivered' # delivered =>
          /\ phase \in {"consuming", "started"}
          /\ phase' = phase
     /\ (pc # "idle" \/ pc' # "idle") =>
          phase \in {"consuming", "started", "stopping"}]_vars

C13_Witness ==
  /\ phase = "stopped"
  /\ delivered = 2
  /\ catalog["p1"].price = Num(3, TRUE)
  /\ catalog["p1"].stock = Num(5, FALSE)

\* a handling was in flight when stop() was called
InFlightAtStop == atStop \in {"get", "put", "backoff"}

(* C14: while a message is in flight during the shutdown (in a pending
   GET or PUT, or in a retry backoff), its handling goes on: the pending
   answer or timer can still arrive, the shutdown does not advance, and the
   handling ends by handleMessage's own return, with its last log written.
   The consumer is disconnected, and the process exits, only with no
   handling in flight. *)
C14_DrainBeforeExit ==
  /\ [](/\ phase \in {"stopped", "exited"} => pc = "idle"
        /\ (phase = "stopping" /\ pc = "get") => ENABLED GetResponse
        /\ (phase = "stopping" /\ pc = "put") => ENABLED PutResponse
        /\ (phase = "stopping" /\ pc = "backoff") => ENABLED BackoffDone)
  /\ [][(phase = "stopping" /\ pc # "idle") =>
          /\ phase' = "stopping"
          /\ exitCode' = -1
          /\ pc' = "idle" =>
               /\ result' = "returned"
               /\ Len(log') = Len(log) + 1
               /\ LastLog'.level \in {"info", "error"}]_vars

C14_Witness ==
  /\ phase = "stopping"
  /\ atStop = "backoff"
  /\ Finished
  /\ attempts = 3
  /\ Len(Applied(calls)) = 1

(* C15: from the call of stop() on, no message is handed to handleMessage:
   the count of delivered messages stays as it was, and a handling in
   flight during the shutdown is one that was in flight when stop() was
   called. *)
C15_NoDispatchAfterStop ==
  [][(phase \in {"stopping", "stopped", "exited"}) =>
       /\ delivered' = delivered
       /\ (pc' # "idle" => (pc # "idle" /\ InFlightAtStop))]_vars

C15_Witness ==
  /\ phase = "stopping"
  /\ pc = "idle"
  /\ result = "none"
  /\ delivered = 1
  /\ ~InFlightAtStop

----------------------------------------------------------------------------
(* Termination of the handling of one message *)

\* number of steps the handling in flight can still take, at most: each try
\* is a GET, a PUT and a backoff, and job.retries tries may follow it
Rank ==
  IF pc = "idle" THEN 0
  ELSE 3 * job.retries + (CASE pc = "get" -> 3 [] pc = "put" -> 2 [] OTHER -> 1)

(* C18: the handling of a message cannot go on for ever.  While it is in
   flight its next step is always possible once the pending HTTP call is
   answered (or times out) or the backoff timer fires; every such step
   lowers a rank that is never negative and starts at 12 at most; and the
   whole handling makes at most 4 tries, 8 HTTP calls and 3 waits. *)
C18_HandlingTerminates ==
  /\ [](/\ Rank \in 0..12
        /\ attempts <= 4
        /\ Len(calls) <= 8
        /\ Len(delays) <= 3
        /\ pc = "get" => ENABLED GetResponse
        /\ pc = "put" => ENABLED PutResponse
        /\ pc = "backoff" => ENABLED BackoffDone)
  /\ [][(pc # "idle" /\ <<pc, calls, attempts>>' # <<pc, calls, attempts>>) =>
          Rank' < Rank]_vars

C18_Witness ==
  /\ Finished
  /\ attempts = 4
  /\ Len(calls) = 8
  /\ Len(delays) = 3
  /\ LastCall.status = 400

----------------------------------------------------------------------------
(* Partitions *)

TasksOf(p) == {t \in tasks : t.partition = p}

(* C16: at most one message of a partition is in flight at any time, and it
   is the one handed out last; the next message of the partition is handed
   out only when none of the partition is in flight (the one before it has
   run to its end, retries and backoffs included); and the calls made for
   the messages of a partition are made in offset order. *)
C16_PartitionSequential ==
  /\ [](\A p \in Partitions :
          /\ Cardinality(TasksOf(p)) <= 1
          /\ \A t \in TasksOf(p) : t.offset = offset[p] /\ busy[p])
  /\ [][\A p \in Partitions :
          /\ offset'[p] # offset[p] => (TasksOf(p) = {} /\ offset'[p] = offset[p] + 1)
          /\ issued'[p] >= issued[p]]_vars

C16_Witness ==
  /\ Len(writes) = 1
  /\ writes[1].partition = 1
  /\ writes[1].offset = 1
  /\ \E t \in TasksOf(1) : t.offset = 2 /\ t.pc = "backoff" /\ t.retries = 2
  /\ issued[1] = 2

\* positions in writes of the accepted PUTs that carry field f
WritesOf(f) == {i \in 1..Len(writes) : f \in DOMAIN writes[i].body}

LastOf(S) == CHOOSE i \in S : \A k \in S : k <= i

(* C19: the accepted PUTs of one partition are applied in offset order, and
   every accepted PUT overwrites the stored value whatever the timestamp
   of its event is: the price (stock) in the catalog is always the one of
   the PUT accepted last, so after two events of a partition for the same
   product were both applied, it is the value of the later offset unless a
   PUT of another partition came after it. *)
C19_LastValueWins ==
  /\ \A i, k \in 1..Len(writes) :
       (i < k /\ writes[i].partition = writes[k].partition) =>
         writes[i].offset < writes[k].offset
  /\ \A f \in {"price", "stock"} :
       WritesOf(f) # {} =>
         catalog[writes[LastOf(WritesOf(f))].target][f]
           = writes[LastOf(WritesOf(f))].body[f]

C19_Witness ==
  /\ Len(writes) = 2
  /\ writes[1].partition = 2 /\ writes[1].offset = 1
  /\ writes[2].partition = 2 /\ writes[2].offset = 2
  /\ writes[1].body = [price |-> Num(3, TRUE)]
  /\ writes[2].body = [price |-> Num(4, FALSE)]
  /\ writes[1].timestamp.n > writes[2].timestamp.n
  /\ catalog["p1"].price = Num(4, FALSE)
  /\ tasks = {}

(* C17: a message that fails or is dropped changes nothing in the worker's
   lifecycle and leaves its partition free for the next message; as long
   as the consume loop runs, a free partition with a message left gets it
   handed out, whatever the other partitions are doing and however many
   messages were dropped before; every in-flight handling can take its
   next step while others wait in a backoff; and, HTTP calls being answered
   and timers firing, every message handed out is handled to its end,
   which frees its partition. *)
C17_FailuresDoNotPause ==
  /\ \A p \in Partitions : busy[p] ~> ~busy[p]
  /\ [](\A p \in Partitions :
          (ConsumerRunning(phase) /\ ~busy[p] /\ Dispatched < MaxDispatched) =>
            ENABLED DispatchOn(p))
  /\ [](\A t \in tasks : ENABLED TaskStep(t))
  /\ [][dropped' # dropped =>
          /\ UNCHANGED wvars
          /\ \A p \in Partitions :
               (offset'[p] # offset[p] \/ TasksOf(p) # TasksOf(p)') => ~busy'[p]]_vars

C17_Witness ==
  /\ phase = "started"
  /\ dropped = 1
  /\ offset[1] = 1
  /\ offset[2] = 2
  /\ \E t \in TasksOf(1) : t.pc = "backoff" /\ t.retries = 3
  /\ \E t \in TasksOf(2) : t.pc = "put" /\ t.retries = 0

----------------------------------------------------------------------------
(* Failed lookups *)

\* the handling ended, and every lookup of it failed with something else
\* than 404 (503 stands for network errors, timeouts and 5xx)
LookupFailsEveryTry ==
  /\ Finished
  /\ calls # <<>>
  /\ \A i \in 1..Len(calls) : calls[i].method = "GET" /\ calls[i].status = 503

(* C20: a lookup answered with a failure other than 404 is never taken as
   not-found: it is followed by a backoff and a new try, and when every
   try of the lookup fails that way the message ends after the 4 tries of
   the retry policy with the error logged by handleMessage (not the
   not-found log), handleMessage returning normally, and no PUT call. *)
C20_LookupErrorSurfaced ==
  /\ (calls # <<>> /\ LastCall.method = "GET" /\ LastCall.status \in {400, 503}) =>
       /\ \A i \in 1..Len(log) : log[i].msg # "Product not found for SKU"
       /\ \/ pc = "backoff" /\ attempts < 4
          \/ pc = "idle" /\ attempts = 4 /\ IsErrorLog(LastLog)
  /\ LookupFailsEveryTry =>
       /\ Len(Gets) = 4
       /\ delays = <<1000, 2000, 4000>>
       /\ Puts = <<>>
       /\ result = "returned"
       /\ IsErrorLog(LastLog)
       /\ LastLog.ref = "AxiosError"
       /\ Errors(log) = 1

C20_Witness ==
  /\ LookupFailsEveryTry
  /\ ValidEvent("stock_updates")
  /\ Len(calls) = 4
  /\ phase = "started"

----------------------------------------------------------------------------
(* Messages that are not events *)

OnUnknownTopic == Finished /\ job.topic \notin Topics

(* C21: a message of a topic other than the three subscribed ones makes no
   HTTP call and ends by a normal return of handleMessage with something
   logged, the process alive and its consumer as it was (running, or
   stopping after a signal); when its value is JSON, what is logged is the
   'Unknown topic' warning and no error. *)
C21_UnknownTopicIgnored ==
  OnUnknownTopic =>
    /\ calls = <<>>
    /\ attempts = 0
    /\ result = "returned"
    /\ log # <<>>
    /\ phase \in {"consuming", "started", "stopping"}
    /\ exitCode = -1
    /\ job.value.kind = "json" =>
         /\ LastLog.level = "warn"
         /\ LastLog.msg = "Unknown topic"
         /\ LastLog.ref = job.topic
         /\ Errors(log) = 0

C21_Witness ==
  /\ OnUnknownTopic
  /\ job.topic = "order_updates"
  /\ job.value.kind = "json"
  /\ phase = "started"
  /\ delivered = 2

(* C22: a message whose value is not JSON text ends with one thing logged
   and nothing else done: no 'Received message' log, no HTTP call, no try
   of withRetry, and handleMessage returns normally.  For text that does
   not parse the thing logged is the error of JSON.parse, for an empty
   value it is the 'Received empty message' warning; neither is the
   ZodError a payload refused by its schema ends with, which comes after
   the 'Received message' log. *)
C22_UndecodableDropped ==
  /\ (Finished /\ job.value.kind = "garbage") =>
       /\ log = <<ErrorLog("SyntaxError")>>
       /\ calls = <<>>
       /\ attempts = 0
       /\ result = "returned"
  /\ (Finished /\ job.value.kind \in {"null", "empty"}) =>
       /\ Len(log) = 1
       /\ LastLog.level = "warn"
       /\ LastLog.msg = "Received empty message"
       /\ calls = <<>>
       /\ result = "returned"
  /\ (Finished /\ IsJson /\ FailsValidation(job.topic, Payload)) =>
       /\ Len(log) = 2
       /\ log[1].msg = "Received message"
       /\ LastLog = ErrorLog("ZodError")

C22_Witness ==
  /\ Finished
  /\ job.value.kind = "garbage"
  /\ job.topic = "price_updates"
  /\ phase = "started"
  /\ catalog = InitialCatalog

\* fields of a product event that processProductUpdate copies
Updatable == {"name", "description", "category", "brand", "weight", "unit", "isActive"}

(* C26: for a valid product event, every updatable field the event carries
   is in the body of its PUT with the event's value, also when the value
   is 0, the empty string or false. *)
C26_CarriedFieldsSent ==
  (ValidEvent("product_updates") /\ Puts # <<>>) =>
    \A f \in Updatable \cap DOMAIN Payload :
      /\ f \in DOMAIN Puts[1].body
      /\ Puts[1].body[f] = Payload[f]

\* the call before the i-th one is a lookup that found the PUT's target
ResolvedJustBefore(i) ==
  /\ i > 1
  /\ calls[i - 1].method = "GET"
  /\ calls[i - 1].status = 200
  /\ calls[i].target \in SkuMatches(catalog, calls[i - 1].target)

(* C27: every try of a message runs the whole operation again.  A PUT goes
   to the id the event carries, or, when the event carries none, to the id
   found by the lookup made just before it in the same try; a message that
   needs the lookup makes one GET per try; and the GET calls and the PUT
   calls of a message are each at most as many as its tries, which are at
   most 4. *)
C27_WholeOperationRetried ==
  /\ attempts <= 4
  /\ Len(Gets) <= attempts
  /\ Len(Puts) <= attempts
  /\ \A i \in 1..Len(calls) :
       calls[i].method = "PUT" =>
         IF Truthy(Field(Payload, TargetKey(job.topic)))
         THEN calls[i].target = Payload[TargetKey(job.topic)].s /\ Gets = <<>>
         ELSE ResolvedJustBefore(i)
  /\ (calls # <<>> /\ calls[1].method = "GET") => Len(Gets) = attempts

C27_Witness ==
  /\ Finished
  /\ attempts = 4
  /\ Len(Gets) = 4
  /\ Len(Puts) = 3
  /\ Len(Applied(calls)) = 1
  /\ calls[1].status = 503

----------------------------------------------------------------------------
(* Shutdown signals and the isRunning flag *)

\* the phases in which the process lives and stop() has not been called
BeforeStop == {"created", "connected", "subscribed", "consuming", "started"}

\* C23: a termination signal is handled in every phase before stop(): the
\* handler calls stop(), which clears the flag and starts the disconnect;
\* the process exits with code 0 only from the state in which the
\* disconnect has completed, and once stop() has been called the process
\* eventually exits
C23_SignalShutsDown ==
  /\ []((phase \in BeforeStop) => ENABLED Signal)
  /\ [][((phase \in BeforeStop) /\ phase' = "stopping") =>
          (~isRunning' /\ exitCode' = -1)]_vars
  /\ [][(exitCode' = 0 /\ exitCode # 0) => phase = "stopped"]_vars
  /\ [][phase' = "stopped" => phase \in {"stopping", "stopped"}]_vars
  /\ ((phase = "stopping") ~> (phase = "exited"))

C23_Witness ==
  /\ phase = "exited"
  /\ exitCode = 0
  /\ starting = "subscribe"

\* C28: the flag is true only in the phase start() reaches after connect,
\* subscribe and run, it is false once stop() has begun, and a process
\* that exited with code 1 out of start() left it false
C28_FlagFollowsLifecycle ==
  /\ isRunning => phase = "started"
  /\ (exitCode = 1 /\ atStop = "") => ~isRunning
  /\ (phase \in {"stopping", "stopped"}) => ~isRunning

----------------------------------------------------------------------------
(* Bounded concurrency of the consume loop *)

\* the partitions whose eachMessage call is pending
BusyPartitions == {p \in DOMAIN busy : busy[p]}

\* C24: at most 3 partitions have a message being processed at a time, and
\* a partition has at most one message in flight
C24_BoundedConcurrency ==
  /\ Cardinality(BusyPartitions) <= 3
  /\ \A p \in DOMAIN busy : Cardinality(TasksOf(p)) <= 1
  /\ \A t \in tasks : busy[t.partition]

\* three partitions are busy and the fourth has a message waiting
C24_Witness ==
  /\ Cardinality(BusyPartitions) = 3
  /\ ConsumerRunning(phase)
  /\ SumTo(offset, Cardinality(DOMAIN offset)) < MaxWide
  /\ ~ENABLED DispatchingWide

----------------------------------------------------------------------------
(* The cached copy of a product *)

\* C30: a getProductById call that started after an updateProduct call
\* returned gives the version that update wrote, or a later one
C30_ReadsSeeReturnedUpdates ==
  lastGet.done => lastGet.value >= lastGet.floor

----------------------------------------------------------------------------
(* The approval workflow *)

\* C25: registerUser stores role PENDING, and no loginUser call completes
\* and no request passes authenticate + memberOrAdmin while the stored
\* role of the user is PENDING
C25_PendingNeverEnters ==
  /\ uevent.op = "register" => uevent.after.role = "PENDING"
  /\ (uevent.op \in {"login", "browse"} /\ uevent.ok) =>
       uevent.stored.role # "PENDING"

\* C29: approveUser writes only over a stored role PENDING, making the
\* user an active MEMBER or an inactive PENDING user, and it fails, writing
\* nothing, only when the stored role is not PENDING
C29_ApproveOnlyPending ==
  /\ (uevent.op = "approve" /\ uevent.ok) =>
       /\ uevent.stored.role = "PENDING"
       /\ uevent.after \in {User("MEMBER", TRUE), User("PENDING", FALSE)}
  /\ (uevent.op = "approve" /\ ~uevent.ok /\ uevent.stored.exists) =>
       uevent.stored.role # "PENDING"

====
